---- MODULE Spec2Model ----
(***************************************************************************)
(* A model of the LRU cache of src/lib.rs: a HashMap from keys to raw      *)
(* pointers into heap-allocated entries, which are threaded on an          *)
(* intrusive doubly-linked list running from head (most recently used) to  *)
(* tail (least recently used).  The heap is modelled explicitly so that    *)
(* allocation, release and every pointer dereference are visible.          *)
(***************************************************************************)
EXTENDS Integers, Sequences, FiniteSets, TLC

\* ---- bounds of the model ----
NumKeys == 3
NumVals == 2
MaxCap  == 2

\* ---- values of the program ----
NULL  == 0          \* std::ptr::null_mut()
NoVal == 0          \* Option::None as the result of get
NoKey == 0          \* key field of storage that holds no entry

Keys   == 1..NumKeys
Values == 1..NumVals
\* insert allocates the new entry before it releases one, so a cache of
\* capacity c holds up to c + 1 entries for a moment; the largest cache that is
\* run has capacity MaxCap + 1 (SpecWide)
NumPtrs == MaxCap + 2
Ptrs   == 1..NumPtrs

\* the addresses the allocator hands out to a cache of capacity cap: MaxCap + 1
\* of them for the capacities 0..MaxCap, all of them for capacity MaxCap + 1
Pool(cap) == IF cap <= MaxCap THEN 1..(MaxCap + 1) ELSE Ptrs

VARIABLES
    capacity,   \* LruCache.capacity
    cache,      \* LruCache.cache : key -> pointer to its entry, NULL when unmapped
    head,       \* LruCache.head
    tail,       \* LruCache.tail
    heap,       \* the allocator's storage: address -> Entry (or released storage)
    ub,         \* TRUE once released storage was read, written or released again
    alive,      \* FALSE once the cache has been dropped
    last,       \* history: the operation performed last and what it returned
    touched,    \* history: keys by last touch (successful get or insert), newest first
    lastIns     \* history: the value given by the most recent insert of each key

vars == <<capacity, cache, head, tail, heap, ub, alive, last, touched, lastIns>>

\* storage that holds no entry
FreeCell == [live |-> FALSE, key |-> NoKey, value |-> NoVal, next |-> NULL, prev |-> NULL]

\* the cache as one record, the `self` of the methods
Self == [capacity |-> capacity, cache |-> cache, head |-> head, tail |-> tail,
         heap |-> heap, ub |-> ub]

\* ---- raw pointer access ----
\* a dereference of p is defined only while p is allocated and not released
Valid(s, p) == p \in Ptrs /\ s.heap[p].live

Fault(s) == [s EXCEPT !.ub = TRUE]

SetNext(s, p, q) == IF Valid(s, p) THEN [s EXCEPT !.heap[p].next = q] ELSE Fault(s)

SetPrev(s, p, q) == IF Valid(s, p) THEN [s EXCEPT !.heap[p].prev = q] ELSE Fault(s)

\* ---- std::collections::HashMap ----
HashMap_len(m) == Cardinality({k \in Keys : m[k] # NULL})

HashMap_get(m, key) == m[key]

\* HashMap::insert as it would be if it kept an existing mapping (or_insert)
HashMap_insert_KeepExisting(m, key, entry) ==
    IF m[key] # NULL THEN m ELSE [m EXCEPT ![key] = entry]

HashMap_insert(m, key, entry) == [m EXCEPT ![key] = entry]

HashMap_remove(m, key) == [m EXCEPT ![key] = NULL]

\* ---- LruCache ----
new(cap) == [capacity |-> cap, cache |-> [k \in Keys |-> NULL], head |-> NULL,
             tail |-> NULL, heap |-> [p \in Ptrs |-> FreeCell], ub |-> FALSE]

len(s) == HashMap_len(s.cache)

\* remove_entry as it would be if the test of prev were missing and head were
\* always moved to the successor
remove_entry_AlwaysHead(s, entry) ==
    IF ~Valid(s, entry) THEN Fault(s)
    ELSE LET prev == s.heap[entry].prev
             next == s.heap[entry].next
             s1 == [s EXCEPT !.head = next]
         IN  IF next # NULL THEN SetPrev(s1, next, prev)
                            ELSE [s1 EXCEPT !.tail = prev]

\* remove_entry as it would be if unlinking the last entry left tail alone
remove_entry_KeepTail(s, entry) ==
    IF ~Valid(s, entry) THEN Fault(s)
    ELSE LET prev == s.heap[entry].prev
             next == s.heap[entry].next
             s1 == IF prev # NULL THEN SetNext(s, prev, next)
                                  ELSE [s EXCEPT !.head = next]
         IN  IF next # NULL THEN SetPrev(s1, next, prev)
                            ELSE s1

\* remove_entry as it would be if unlinking the first entry left head alone
remove_entry_KeepHead(s, entry) ==
    IF ~Valid(s, entry) THEN Fault(s)
    ELSE LET prev == s.heap[entry].prev
             next == s.heap[entry].next
             s1 == IF prev # NULL THEN SetNext(s, prev, next)
                                  ELSE s
         IN  IF next # NULL THEN SetPrev(s1, next, prev)
                            ELSE [s1 EXCEPT !.tail = prev]

remove_entry(s, entry) ==
    IF ~Valid(s, entry) THEN Fault(s)
    ELSE LET prev == s.heap[entry].prev
             next == s.heap[entry].next
             s1 == IF prev # NULL THEN SetNext(s, prev, next)
                                  ELSE [s EXCEPT !.head = next]
         IN  IF next # NULL THEN SetPrev(s1, next, prev)
                            ELSE [s1 EXCEPT !.tail = prev]

\* push_entry_front as it would be if the old head's prev were not set
push_entry_front_NoBackLink(s, entry) ==
    IF ~Valid(s, entry) THEN Fault(s)
    ELSE LET s1 == [s EXCEPT !.heap[entry].next = s.head,
                             !.heap[entry].prev = NULL]
             s2 == IF s1.head # NULL THEN s1
                                     ELSE [s1 EXCEPT !.tail = entry]
         IN  [s2 EXCEPT !.head = entry]

\* push_entry_front as it would be if it linked the entry at the back
push_entry_front_AtBack(s, entry) ==
    IF ~Valid(s, entry) THEN Fault(s)
    ELSE LET s1 == [s EXCEPT !.heap[entry].prev = s.tail,
                             !.heap[entry].next = NULL]
             s2 == IF s1.tail # NULL THEN SetNext(s1, s1.tail, entry)
                                     ELSE [s1 EXCEPT !.head = entry]
         IN  [s2 EXCEPT !.tail = entry]

\* push_entry_front as it would be if head were set only for an empty list
push_entry_front_KeepHead(s, entry) ==
    IF ~Valid(s, entry) THEN Fault(s)
    ELSE LET s1 == [s EXCEPT !.heap[entry].next = s.head,
                             !.heap[entry].prev = NULL]
         IN  IF s1.head # NULL THEN SetPrev(s1, s1.head, entry)
                               ELSE [s1 EXCEPT !.tail = entry, !.head = entry]

push_entry_front(s, entry) ==
    IF ~Valid(s, entry) THEN Fault(s)
    ELSE LET s1 == [s EXCEPT !.heap[entry].next = s.head,
                             !.heap[entry].prev = NULL]
             s2 == IF s1.head # NULL THEN SetPrev(s1, s1.head, entry)
                                     ELSE [s1 EXCEPT !.tail = entry]
         IN  [s2 EXCEPT !.head = entry]

\* Box::new at the address p the allocator hands out
get_free_entry(s, key, value, p) ==
    [s EXCEPT !.heap[p] = [live |-> TRUE, key |-> key, value |-> value,
                           next |-> NULL, prev |-> NULL]]

free_entry(s, entry) ==
    IF ~Valid(s, entry) THEN Fault(s)
    ELSE [s EXCEPT !.heap[entry] = FreeCell]

\* get as it would be if a miss fell through to the reordering with the tail
get_MissPromotesTail(s, key) ==
    LET found == HashMap_get(s.cache, key)
        entry == IF found # NULL THEN found ELSE s.tail
    IN  IF entry # NULL
        THEN LET s1 == push_entry_front(remove_entry(s, entry), entry)
             IN  [self |-> s1,
                  ret  |-> IF found # NULL /\ Valid(s1, entry)
                           THEN s1.heap[entry].value ELSE NoVal]
        ELSE [self |-> s, ret |-> NoVal]

\* get as it would be without the move to the front
get_NoPromote(s, key) ==
    LET entry == HashMap_get(s.cache, key)
    IN  IF entry # NULL
        THEN [self |-> s, ret |-> IF Valid(s, entry) THEN s.heap[entry].value ELSE NoVal]
        ELSE [self |-> s, ret |-> NoVal]

\* get returns the cache after the call and the Option<&V> it hands back
get(s, key) ==
    LET entry == HashMap_get(s.cache, key)
    IN  IF entry # NULL
        THEN LET s1 == push_entry_front(remove_entry(s, entry), entry)
             IN  [self |-> s1,
                  ret  |-> IF Valid(s1, entry) THEN s1.heap[entry].value ELSE NoVal]
        ELSE [self |-> s, ret |-> NoVal]

\* insert as it would be if the eviction step took head instead of tail
insert_EvictHead(s, key, value, p) ==
    LET entry == p
        s1 == push_entry_front(get_free_entry(s, key, value, p), entry)
        old_entry == HashMap_get(s1.cache, key)
        s2 == [s1 EXCEPT !.cache = HashMap_insert(s1.cache, key, entry)]
    IN  IF old_entry # NULL
        THEN free_entry(remove_entry(s2, old_entry), old_entry)
        ELSE IF len(s2) > s2.capacity
        THEN LET lru == s2.head
             IN  IF lru # NULL
                 THEN LET s3 == remove_entry(s2, lru)
                          s4 == IF Valid(s3, lru)
                                THEN [s3 EXCEPT !.cache =
                                         HashMap_remove(s3.cache, s3.heap[lru].key)]
                                ELSE Fault(s3)
                      IN  free_entry(s4, lru)
                 ELSE s2
        ELSE s2

\* insert as it would be if a replaced entry were unlinked but never released
insert_LeakOld(s, key, value, p) ==
    LET entry == p
        s1 == push_entry_front(get_free_entry(s, key, value, p), entry)
        old_entry == HashMap_get(s1.cache, key)
        s2 == [s1 EXCEPT !.cache = HashMap_insert(s1.cache, key, entry)]
    IN  IF old_entry # NULL
        THEN remove_entry(s2, old_entry)
        ELSE IF len(s2) > s2.capacity
        THEN LET lru == s2.tail
             IN  IF lru # NULL
                 THEN LET s3 == remove_entry(s2, lru)
                          s4 == IF Valid(s3, lru)
                                THEN [s3 EXCEPT !.cache =
                                         HashMap_remove(s3.cache, s3.heap[lru].key)]
                                ELSE Fault(s3)
                      IN  free_entry(s4, lru)
                 ELSE s2
        ELSE s2

\* insert as it would be with the capacity test written >= instead of >
insert_EvictAtCapacity(s, key, value, p) ==
    LET entry == p
        s1 == push_entry_front(get_free_entry(s, key, value, p), entry)
        old_entry == HashMap_get(s1.cache, key)
        s2 == [s1 EXCEPT !.cache = HashMap_insert(s1.cache, key, entry)]
    IN  IF old_entry # NULL
        THEN free_entry(remove_entry(s2, old_entry), old_entry)
        ELSE IF len(s2) >= s2.capacity
        THEN LET lru == s2.tail
             IN  IF lru # NULL
                 THEN LET s3 == remove_entry(s2, lru)
                          s4 == IF Valid(s3, lru)
                                THEN [s3 EXCEPT !.cache =
                                         HashMap_remove(s3.cache, s3.heap[lru].key)]
                                ELSE Fault(s3)
                      IN  free_entry(s4, lru)
                 ELSE s2
        ELSE s2

\* insert as it would be if the eviction step spared the entry just linked
insert_SpareNew(s, key, value, p) ==
    LET entry == p
        s1 == push_entry_front(get_free_entry(s, key, value, p), entry)
        old_entry == HashMap_get(s1.cache, key)
        s2 == [s1 EXCEPT !.cache = HashMap_insert(s1.cache, key, entry)]
    IN  IF old_entry # NULL
        THEN free_entry(remove_entry(s2, old_entry), old_entry)
        ELSE IF len(s2) > s2.capacity
        THEN LET lru == s2.tail
             IN  IF lru # NULL /\ lru # entry
                 THEN LET s3 == remove_entry(s2, lru)
                          s4 == IF Valid(s3, lru)
                                THEN [s3 EXCEPT !.cache =
                                         HashMap_remove(s3.cache, s3.heap[lru].key)]
                                ELSE Fault(s3)
                      IN  free_entry(s4, lru)
                 ELSE s2
        ELSE s2

\* insert as it would be if it made room before it looked the key up
insert_EvictFirst(s, key, value, p) ==
    LET lru == s.tail
        s0 == IF len(s) >= s.capacity /\ lru # NULL
              THEN LET s3 == remove_entry(s, lru)
                       s4 == IF Valid(s3, lru)
                             THEN [s3 EXCEPT !.cache =
                                      HashMap_remove(s3.cache, s3.heap[lru].key)]
                             ELSE Fault(s3)
                   IN  free_entry(s4, lru)
              ELSE s
        entry == p
        s1 == push_entry_front(get_free_entry(s0, key, value, p), entry)
        old_entry == HashMap_get(s1.cache, key)
        s2 == [s1 EXCEPT !.cache = HashMap_insert(s1.cache, key, entry)]
    IN  IF old_entry # NULL
        THEN free_entry(remove_entry(s2, old_entry), old_entry)
        ELSE s2

\* insert as it would be with the capacity test off by one (len > capacity + 1)
insert_EvictLate(s, key, value, p) ==
    LET entry == p
        s1 == push_entry_front(get_free_entry(s, key, value, p), entry)
        old_entry == HashMap_get(s1.cache, key)
        s2 == [s1 EXCEPT !.cache = HashMap_insert(s1.cache, key, entry)]
    IN  IF old_entry # NULL
        THEN free_entry(remove_entry(s2, old_entry), old_entry)
        ELSE IF len(s2) > s2.capacity + 1
        THEN LET lru == s2.tail
             IN  IF lru # NULL
                 THEN LET s3 == remove_entry(s2, lru)
                          s4 == IF Valid(s3, lru)
                                THEN [s3 EXCEPT !.cache =
                                         HashMap_remove(s3.cache, s3.heap[lru].key)]
                                ELSE Fault(s3)
                      IN  free_entry(s4, lru)
                 ELSE s2
        ELSE s2

insert(s, key, value, p) ==
    LET entry == p
        s1 == push_entry_front(get_free_entry(s, key, value, p), entry)
        old_entry == HashMap_get(s1.cache, key)
        s2 == [s1 EXCEPT !.cache = HashMap_insert(s1.cache, key, entry)]
    IN  IF old_entry # NULL
        THEN free_entry(remove_entry(s2, old_entry), old_entry)
        ELSE IF len(s2) > s2.capacity
        THEN LET lru == s2.tail
             IN  IF lru # NULL
                 THEN LET s3 == remove_entry(s2, lru)
                          s4 == IF Valid(s3, lru)
                                THEN [s3 EXCEPT !.cache =
                                         HashMap_remove(s3.cache, s3.heap[lru].key)]
                                ELSE Fault(s3)
                      IN  free_entry(s4, lru)
                 ELSE s2
        ELSE s2

\* remove as it would be if a miss fell through to releasing the tail
remove_MissEvicts(s, key) ==
    LET found == HashMap_get(s.cache, key)
        entry == IF found # NULL THEN found ELSE s.tail
    IN  IF entry # NULL
        THEN LET s1 == [s EXCEPT !.cache = HashMap_remove(s.cache, key)]
             IN  free_entry(remove_entry(s1, entry), entry)
        ELSE s

\* remove as it would be if it looked the key up without unmapping it
remove_KeepIndex(s, key) ==
    LET entry == HashMap_get(s.cache, key)
    IN  IF entry # NULL
        THEN free_entry(remove_entry(s, entry), entry)
        ELSE s

remove(s, key) ==
    LET entry == HashMap_get(s.cache, key)
    IN  IF entry # NULL
        THEN LET s1 == [s EXCEPT !.cache = HashMap_remove(s.cache, key)]
             IN  free_entry(remove_entry(s1, entry), entry)
        ELSE s

\* Drop for LruCache: walk the list from current and release every entry
RECURSIVE drop_from(_, _)
drop_from(s, current) ==
    IF current = NULL THEN s
    ELSE IF ~Valid(s, current) THEN Fault(s)
    ELSE LET next == s.heap[current].next
         IN  drop_from(free_entry(s, current), next)

\* drop as it would be without the loop: only the first entry is released
drop_HeadOnly(s) ==
    IF s.head = NULL THEN s
    ELSE IF ~Valid(s, s.head) THEN Fault(s)
    ELSE free_entry(s, s.head)

drop(s) == drop_from(s, s.head)

\* ---- history ----
\* key moves to the front of the touch order
Touch(seq, key) == <<key>> \o SelectSeq(seq, LAMBDA x : x # key)

NoOp == [op |-> "new", key |-> NoKey, value |-> NoVal, ret |-> NoVal,
         hit |-> FALSE, gone |-> {}, prior |-> NoVal]

\* ---- the state machine ----
Init ==
    /\ capacity \in 0..MaxCap
    /\ cache = new(capacity).cache
    /\ head = new(capacity).head
    /\ tail = new(capacity).tail
    /\ heap = new(capacity).heap
    /\ ub = FALSE
    /\ alive = TRUE
    /\ last = NoOp
    /\ touched = <<>>
    /\ lastIns = [k \in Keys |-> NoVal]

Install(s) ==
    /\ capacity' = s.capacity
    /\ cache' = s.cache
    /\ head' = s.head
    /\ tail' = s.tail
    /\ heap' = s.heap
    /\ ub' = s.ub

Tracked(m) == {k \in Keys : m[k] # NULL}

Get(key) ==
    /\ alive /\ ~ub
    /\ LET r == get(Self, key)
       IN  /\ Install(r.self)
           /\ last' = [op |-> "get", key |-> key, value |-> NoVal, ret |-> r.ret,
                       hit |-> (r.ret # NoVal), gone |-> Tracked(cache) \ Tracked(r.self.cache),
                       prior |-> NoVal]
           /\ touched' = IF r.ret # NoVal THEN Touch(touched, key) ELSE touched
    /\ UNCHANGED <<alive, lastIns>>

Insert(key, value) ==
    /\ alive /\ ~ub
    /\ \E p \in Pool(capacity) :
          /\ ~heap[p].live
          /\ LET s == insert(Self, key, value, p)
             IN  /\ Install(s)
                 /\ last' = [op |-> "insert", key |-> key, value |-> value, ret |-> NoVal,
                             hit |-> (cache[key] # NULL),
                             gone |-> (Tracked(cache) \cup {key}) \ Tracked(s.cache),
                             prior |-> lastIns[key]]
    /\ touched' = Touch(touched, key)
    /\ lastIns' = [lastIns EXCEPT ![key] = value]
    /\ UNCHANGED alive

Remove(key) ==
    /\ alive /\ ~ub
    /\ LET s == remove(Self, key)
       IN  /\ Install(s)
           /\ last' = [op |-> "remove", key |-> key, value |-> NoVal, ret |-> NoVal,
                       hit |-> (cache[key] # NULL),
                       gone |-> Tracked(cache) \ Tracked(s.cache), prior |-> NoVal]
    /\ UNCHANGED <<alive, touched, lastIns>>

Drop ==
    /\ alive /\ ~ub
    /\ LET s == drop(Self)
       IN  /\ heap' = s.heap
           /\ ub' = s.ub
    /\ cache' = [k \in Keys |-> NULL]
    /\ alive' = FALSE
    /\ last' = [NoOp EXCEPT !.op = "drop"]
    /\ UNCHANGED <<capacity, head, tail, touched, lastIns>>

Next ==
    \/ \E key \in Keys : Get(key)
    \/ \E key \in Keys, value \in Values : Insert(key, value)
    \/ \E key \in Keys : Remove(key)
    \/ Drop

Spec == Init /\ [][Next]_vars

\* ---- what a caller or a test can observe of the structure ----
\* the entries met from p by following next, at most n of them
RECURSIVE Walk(_, _, _)
Walk(hp, p, n) ==
    IF p = NULL \/ n = 0 THEN <<>>
    ELSE <<p>> \o Walk(hp, hp[p].next, n - 1)

\* the Recency List, front to back (one step more than there are addresses, so
\* that a cycle shows as an over-long list)
List == Walk(heap, head, NumPtrs + 1)

ListKeys == [i \in DOMAIN List |-> heap[List[i]].key]

\* the keys of the entries that exist (allocated and not released)
StoredKeys == {heap[p].key : p \in {q \in Ptrs : heap[q].live}}

Range(f) == {f[i] : i \in DOMAIN f}

\* the key of S touched least recently
LeastRecent(seq, S) ==
    LET idx == {i \in DOMAIN seq : seq[i] \in S}
    IN  IF idx = {} THEN NoKey
        ELSE seq[CHOOSE i \in idx : \A j \in idx : j <= i]

\* ---- C1 ----
\* C1: when insert(k, v) of an untracked key finds the cache holding capacity
\* entries (capacity >= 1), the one key that stops being tracked is the
\* tracked key whose last touch (successful get or insert) is the oldest.
C1_EvictsLeastRecentlyTouched ==
    [][ (last'.op = "insert" /\ cache[last'.key] = NULL
            /\ capacity >= 1 /\ len(Self) = capacity)
        => (Tracked(cache) \cup {last'.key}) \ Tracked(cache')
              = {LeastRecent(touched, Tracked(cache))} ]_vars

\* an eviction at capacity 2: one key went, another tracked key survived it
C1_Witness ==
    /\ alive /\ last.op = "insert" /\ ~last.hit /\ capacity = 2
    /\ Cardinality(last.gone) = 1
    /\ \E i, j \in DOMAIN touched :
          /\ touched[i] \in last.gone /\ touched[j] \in Tracked(cache)
          /\ touched[j] # last.key /\ j < i

\* ---- C2 ----
\* C2: len() is the number of distinct keys held by the entries that exist; it
\* is at most capacity when capacity > 0 and it is 0 when capacity = 0.
C2_LenCountsKeysWithinCapacity ==
    alive =>
        /\ len(Self) = Cardinality(StoredKeys)
        /\ len(Self) = Cardinality({p \in Ptrs : heap[p].live})
        /\ capacity > 0 => len(Self) <= capacity
        /\ capacity = 0 => len(Self) = 0

\* a full cache right after an insert that overflowed it
C2_Witness ==
    /\ alive /\ capacity = 2 /\ len(Self) = capacity
    /\ last.op = "insert" /\ last.gone # {}

\* ---- C3 ----
\* C3: the Index and the Recency List describe the same entries: as many
\* mappings as list entries, every mapped key points at exactly one list entry
\* that stores that key, and every list entry is the target of its key's mapping.
C3_IndexMatchesList ==
    alive =>
        /\ HashMap_len(cache) = Len(List)
        /\ \A k \in Tracked(cache) :
              /\ Cardinality({i \in DOMAIN List : List[i] = cache[k]}) = 1
              /\ heap[cache[k]].live
              /\ heap[cache[k]].key = k
        /\ \A i \in DOMAIN List :
              /\ heap[List[i]].live
              /\ heap[List[i]].key \in Keys
              /\ cache[heap[List[i]].key] = List[i]

\* two entries are tracked after an insert replaced one of them
C3_Witness ==
    /\ alive /\ Len(List) = 2 /\ HashMap_len(cache) = 2
    /\ last.op = "insert" /\ last.hit

\* the value stored for key k, NoVal when k is not tracked
Stored(k) == IF cache[k] # NULL THEN heap[cache[k]].value ELSE NoVal

LivePtrs == {p \in Ptrs : heap[p].live}

\* ---- C4 ----
\* C4: insert(k, v2) of a tracked key leaves len() as it was, makes a following
\* get(k) return v2, and puts k at the front of the Recency List.
C4_ReplaceUpdatesValueAndRecency ==
    [][ (last'.op = "insert" /\ cache[last'.key] # NULL)
        => /\ len(Self') = len(Self)
           /\ get(Self', last'.key).ret = last'.value
           /\ Len(List') >= 1
           /\ ListKeys'[1] = last'.key ]_vars

\* a tracked key was re-inserted with a value other than the one it had, next
\* to another tracked key
C4_Witness ==
    /\ alive /\ last.op = "insert" /\ last.hit
    /\ last.prior # NoVal /\ last.prior # last.value
    /\ Len(List) = 2

\* ---- C5 ----
\* C5: insert(k, v) of a tracked key leaves the set of tracked keys as it was
\* and the values of all other keys unchanged, also when the cache is full.
C5_ReplaceNeverEvicts ==
    [][ (last'.op = "insert" /\ cache[last'.key] # NULL)
        => /\ Tracked(cache') = Tracked(cache)
           /\ \A j \in Tracked(cache) \ {last'.key} : Stored(j)' = Stored(j) ]_vars

\* a replace in a full cache of capacity 2, which holds a second key
C5_Witness ==
    /\ alive /\ last.op = "insert" /\ last.hit
    /\ capacity = 2 /\ len(Self) = capacity /\ last.gone = {}

\* ---- C6 ----
\* C6: get(k) of a tracked key returns the value of the most recent
\* insert(k, _) and moves k to the front of the Recency List; the tracked keys,
\* every stored value, the entries that exist and len() are unchanged.
C6_GetHitReturnsValueAndPromotes ==
    [][ (last'.op = "get" /\ cache[last'.key] # NULL)
        => /\ last'.ret = lastIns[last'.key]
           /\ last'.ret \in Values
           /\ Len(List') >= 1
           /\ ListKeys'[1] = last'.key
           /\ cache' = cache
           /\ \A j \in Keys : Stored(j)' = Stored(j)
           /\ LivePtrs' = LivePtrs
           /\ len(Self') = len(Self) ]_vars

\* a get hit on one of two tracked keys
C6_Witness ==
    /\ alive /\ last.op = "get" /\ last.hit
    /\ Len(List) = 2 /\ ListKeys[1] = last.key

\* ---- C7 ----
\* C7: get(k) of an untracked key returns absent and changes nothing: the
\* Index, head, tail and every entry with its links are as before.
C7_GetMissChangesNothing ==
    [][ (last'.op = "get" /\ cache[last'.key] = NULL)
        => /\ last'.ret = NoVal
           /\ UNCHANGED <<capacity, cache, head, tail, heap>>
           /\ ListKeys' = ListKeys ]_vars

\* a get miss in a cache that tracks two other keys
C7_Witness ==
    /\ alive /\ last.op = "get" /\ ~last.hit /\ last.ret = NoVal
    /\ Len(List) = 2 /\ cache[last.key] = NULL

\* ---- C8 ----
\* C8: a cache of capacity 0 is empty in every state: len() is 0, head and
\* tail are null, and get misses for every key, a key just inserted included.
C8_ZeroCapacityStaysEmpty ==
    (alive /\ capacity = 0) =>
        /\ len(Self) = 0
        /\ head = NULL /\ tail = NULL
        /\ \A k \in Keys : get(Self, k).ret = NoVal
        /\ LivePtrs = {}

\* a cache of capacity 0 right after an insert
C8_Witness ==
    /\ alive /\ capacity = 0 /\ last.op = "insert" /\ last.gone = {last.key}

\* ---- C9 ----
\* C9: in every state of a cache in use, full or not, insert(k, v) runs to
\* completion for every k and v (no path of it rejects the write or touches
\* released storage), and for capacity >= 1 it leaves k tracked, at the front
\* of the Recency List, with a following get(k) returning v.
C9_InsertAlwaysSucceeds ==
    [][ /\ alive => \A k \in Keys, v \in Values :
                       \E p \in Pool(capacity) : ~heap[p].live /\ ~insert(Self, k, v, p).ub
        /\ (last'.op = "insert" /\ capacity >= 1)
             => /\ ~ub'
                /\ cache'[last'.key] # NULL
                /\ Len(List') >= 1
                /\ ListKeys'[1] = last'.key
                /\ get(Self', last'.key).ret = last'.value ]_vars

\* an insert of a new key into a full cache of capacity 1 or more
C9_Witness ==
    /\ alive /\ capacity >= 1 /\ last.op = "insert" /\ ~last.hit
    /\ last.gone # {} /\ cache[last.key] # NULL

\* ---- C10 ----
\* C10: remove(k) of a tracked key removes exactly that key: k is unmapped, its
\* entry is off the Recency List, len() is one less and a following get(k)
\* misses; the other keys stay tracked.
C10_RemoveTrackedKey ==
    [][ (last'.op = "remove" /\ cache[last'.key] # NULL)
        => /\ cache'[last'.key] = NULL
           /\ cache[last'.key] \notin Range(List')
           /\ last'.key \notin Range(ListKeys')
           /\ len(Self') = len(Self) - 1
           /\ get(Self', last'.key).ret = NoVal
           /\ Tracked(cache') = Tracked(cache) \ {last'.key} ]_vars

\* a tracked key was removed and another key is still tracked
C10_Witness ==
    /\ alive /\ last.op = "remove" /\ last.hit /\ last.gone = {last.key}
    /\ Len(List) = 1

\* the entries the Index points at
Handles == {cache[k] : k \in Tracked(cache)}

\* ---- C11 ----
\* C11: remove(k) of an untracked key is a no-op and no error: the Index, head,
\* tail, every entry with its links and value, the list order and the set of
\* allocated (hence of released) entries are as before, and nothing faults.
C11_RemoveMissChangesNothing ==
    [][ (last'.op = "remove" /\ cache[last'.key] = NULL)
        => /\ UNCHANGED <<capacity, cache, head, tail, heap>>
           /\ ListKeys' = ListKeys
           /\ LivePtrs' = LivePtrs
           /\ ~ub' /\ alive' ]_vars

\* a remove miss in a cache that tracks two other keys
C11_Witness ==
    /\ alive /\ last.op = "remove" /\ ~last.hit /\ last.gone = {}
    /\ Len(List) = 2 /\ cache[last.key] = NULL

\* ---- C12 ----
\* C12: dropping the cache releases exactly the entries still tracked, each
\* once: afterwards no entry is allocated (no leak) and no released storage was
\* released again or read (no double release).
C12_DropReleasesEveryEntryOnce ==
    [][ last'.op = "drop"
        => /\ LivePtrs' = {}
           /\ LivePtrs \ LivePtrs' = Handles
           /\ Cardinality(Handles) = len(Self)
           /\ ~ub' ]_vars

\* a cache dropped while it held two entries, after a third key had been
\* released by an earlier eviction or remove
C12_Witness ==
    /\ ~alive /\ last.op = "drop" /\ ~ub
    /\ head # NULL /\ tail # NULL /\ head # tail
    /\ Len(touched) = 3

\* ---- C13 ----
\* C13: after every completed operation the entries that are allocated and not
\* released are exactly the entries the Index tracks, len() of them, and no
\* release ever hit storage that was already released.
C13_ReleaseIsImmediateAndExact ==
    /\ ~ub
    /\ alive => /\ LivePtrs = Handles
                /\ LivePtrs = Range(List)
                /\ Cardinality(LivePtrs) = len(Self)

\* a cache of capacity 1 right after an eviction released the old entry
C13_Witness ==
    /\ alive /\ capacity = 1 /\ last.op = "insert" /\ ~last.hit
    /\ Cardinality(last.gone) = 1 /\ Cardinality(LivePtrs) = 1

\* ---- C14 ----
\* C14: read from head to tail, the Recency List gives the tracked keys from
\* the most recently touched to the least recently touched.
C14_ListOrderedByLastTouch ==
    alive => ListKeys = SelectSeq(touched, LAMBDA x : x \in Tracked(cache))

\* two tracked keys right after a get hit, a third key having been touched
\* and released before
C14_Witness ==
    /\ alive /\ last.op = "get" /\ last.hit
    /\ Len(List) = 2 /\ Len(touched) = 3

\* ---- C15 ----
\* C15: insert(k, v) of an untracked key removes at most one previously tracked
\* key, and one only if len() = capacity held before; if len() < capacity,
\* every previously tracked key stays tracked with its value.
C15_InsertEvictsAtMostOne ==
    [][ (last'.op = "insert" /\ cache[last'.key] = NULL)
        => /\ Cardinality(Tracked(cache) \ Tracked(cache')) <= 1
           /\ Tracked(cache) \ Tracked(cache') # {} => len(Self) = capacity
           /\ len(Self) < capacity
                => \A j \in Tracked(cache) :
                      cache'[j] # NULL /\ Stored(j)' = Stored(j) ]_vars

\* an insert of a new key next to a tracked key, below capacity
C15_Witness ==
    /\ alive /\ last.op = "insert" /\ ~last.hit /\ last.gone = {}
    /\ capacity = 2 /\ Len(List) = 2

\* ---- C16 ----
\* C16: no operation reads, writes or releases released storage (ub stays
\* false, drop included), and in every state of a live cache each Index handle,
\* head, tail and each link of a tracked entry is null or an allocated entry.
C16_NoDanglingReference ==
    /\ ~ub
    /\ alive =>
          /\ Handles \subseteq LivePtrs
          /\ head \in {NULL} \cup LivePtrs
          /\ tail \in {NULL} \cup LivePtrs
          /\ \A p \in Handles : /\ heap[p].next \in {NULL} \cup LivePtrs
                                 /\ heap[p].prev \in {NULL} \cup LivePtrs

\* two linked entries right after an eviction released a third
C16_Witness ==
    /\ alive /\ capacity = 2 /\ last.op = "insert" /\ ~last.hit
    /\ Cardinality(last.gone) = 1
    /\ head # NULL /\ tail # NULL /\ head # tail
    /\ heap[head].next = tail /\ heap[tail].prev = head

\* ---- C17 ----
\* C17: insert(k, v) of an untracked key ends with k untracked (the entry just
\* linked was the one evicted) exactly when capacity = 0; for capacity >= 1 any
\* key that goes was tracked before and k survives at the head with value v.
C17_NewEntryEvictedOnlyAtZeroCapacity ==
    [][ (last'.op = "insert" /\ cache[last'.key] = NULL)
        => /\ (cache'[last'.key] = NULL) <=> (capacity = 0)
           /\ capacity = 0 => /\ LivePtrs' = LivePtrs
                               /\ Tracked(cache') = Tracked(cache)
           /\ capacity >= 1
                => /\ (Tracked(cache) \cup {last'.key}) \ Tracked(cache')
                         \subseteq Tracked(cache)
                   /\ cache'[last'.key] = head'
                   /\ head' \in LivePtrs' \ LivePtrs
                   /\ heap'[head'].key = last'.key
                   /\ heap'[head'].value = last'.value ]_vars

\* an insert into a full cache of capacity 1: the old key went, the new stayed
C17_Witness ==
    /\ alive /\ capacity = 1 /\ last.op = "insert" /\ ~last.hit
    /\ last.gone # {} /\ last.key \notin last.gone
    /\ head # NULL /\ heap[head].key = last.key

\* ---- C18 ----
\* the reference model: a duplicate-free sequence of <<key, value>> pairs,
\* most recently used first
Ref_without(m, key) == SelectSeq(m, LAMBDA kv : kv[1] # key)

Ref_find(m, key) == SelectSeq(m, LAMBDA kv : kv[1] = key)

Ref_get(m, key) ==
    IF Ref_find(m, key) # <<>>
    THEN [model |-> Ref_find(m, key) \o Ref_without(m, key),
          ret   |-> Ref_find(m, key)[1][2]]
    ELSE [model |-> m, ret |-> NoVal]

Ref_insert(m, key, value, cap) ==
    LET m1 == <<<<key, value>>>> \o Ref_without(m, key)
    IN  IF Len(m1) > cap THEN SubSeq(m1, 1, Len(m1) - 1) ELSE m1

Ref_remove(m, key) == Ref_without(m, key)

\* the <<key, value>> pairs of the Recency List, head to tail
Abs == [i \in DOMAIN List |-> <<heap[List[i]].key, heap[List[i]].value>>]

\* C18: the pointer-based cache refines the reference model under the mapping
\* Abs, which is empty for a new cache: every get, insert and remove takes Abs
\* to what the reference operation makes of it, get returns what the reference
\* get returns, len() is the length of the reference sequence, and that
\* sequence is duplicate-free and no longer than capacity.
C18_RefinesSequenceModel ==
    [][ alive' =>
          LET k == last'.key
              m == IF last'.op = "get" THEN Ref_get(Abs, k).model
                   ELSE IF last'.op = "insert"
                        THEN Ref_insert(Abs, k, last'.value, capacity)
                   ELSE Ref_remove(Abs, k)
          IN  /\ Abs' = m
              /\ len(Self') = Len(m)
              /\ last'.op = "get" => last'.ret = Ref_get(Abs, k).ret
              /\ Len(m) <= capacity
              /\ Cardinality({m[i][1] : i \in DOMAIN m}) = Len(m) ]_vars

\* a get hit that returned the value at the head while the other tracked key
\* holds another value
C18_Witness ==
    /\ alive /\ last.op = "get" /\ last.ret # NoVal
    /\ Len(Abs) >= 2 /\ Abs[1] = <<last.key, last.ret>>
    /\ Abs[2][2] # Abs[1][2]

\* ---- C19 ----
\* C19: the Recency List is a well-formed doubly-linked list: head is null iff
\* tail is null iff len() = 0; head has no prev and tail no next; a.next = b
\* iff b.prev = a for tracked entries; and the walk from head meets len()
\* distinct entries and ends at tail.
C19_ListWellFormed ==
    alive =>
        /\ (head = NULL) <=> (tail = NULL)
        /\ (head = NULL) <=> (len(Self) = 0)
        /\ head # NULL => heap[head].prev = NULL
        /\ tail # NULL => heap[tail].next = NULL
        /\ \A a, b \in Handles : (heap[a].next = b) <=> (heap[b].prev = a)
        /\ Len(List) = len(Self)
        /\ Cardinality(Range(List)) = Len(List)
        /\ List # <<>> => List[Len(List)] = tail

\* two linked entries right after a get hit reordered or confirmed them
C19_Witness ==
    /\ alive /\ last.op = "get" /\ last.hit
    /\ Len(List) = 2 /\ heap[head].next = tail /\ heap[tail].prev = head
    /\ heap[head].key = last.key

\* ---- the wide specification ----
\* Caches of capacity up to MaxCap + 1, so that with NumKeys keys the list can
\* hold a target key and two other keys at once.  The operations are the same
\* get, insert and remove; the history keeps only the operation, its
\* arguments and what it returned.
WideInit ==
    /\ capacity \in 0..(MaxCap + 1)
    /\ cache = new(capacity).cache
    /\ head = new(capacity).head
    /\ tail = new(capacity).tail
    /\ heap = new(capacity).heap
    /\ ub = FALSE
    /\ alive = TRUE
    /\ last = NoOp
    /\ touched = <<>>
    /\ lastIns = [k \in Keys |-> NoVal]

WideGet(key) ==
    /\ alive /\ ~ub
    /\ Install(get(Self, key).self)
    /\ last' = [NoOp EXCEPT !.op = "get", !.key = key, !.ret = get(Self, key).ret]
    /\ UNCHANGED <<alive, touched, lastIns>>

WideInsert(key, value) ==
    /\ alive /\ ~ub
    /\ \E p \in Pool(capacity) :
          /\ ~heap[p].live
          /\ Install(insert(Self, key, value, p))
    /\ last' = [NoOp EXCEPT !.op = "insert", !.key = key, !.value = value]
    /\ UNCHANGED <<alive, touched, lastIns>>

WideRemove(key) ==
    /\ alive /\ ~ub
    /\ Install(remove(Self, key))
    /\ last' = [NoOp EXCEPT !.op = "remove", !.key = key]
    /\ UNCHANGED <<alive, touched, lastIns>>

WideNext ==
    \/ \E key \in Keys : WideGet(key)
    \/ \E key \in Keys, value \in Values : WideInsert(key, value)
    \/ \E key \in Keys : WideRemove(key)

SpecWide == WideInit /\ [][WideNext]_vars

\* the elements of seq that are in S, in the order of seq
Only(seq, S) == SelectSeq(seq, LAMBDA x : x \in S)

====
